---- MODULE Spec2Model ----
(***************************************************************************)
(* Shopee Story Maker (src/src/App.tsx): the App component as a state      *)
(* machine.  The variables are the component's React state, the async      *)
(* invocations of analyzeProduct, generateAudio and startRecording that    *)
(* are suspended at an await, and the animation-frame clock.  Each action  *)
(* is one event handler or one continuation of an async function, run to   *)
(* its next await (React applies the state updates of one such run         *)
(* together).                                                              *)
(***************************************************************************)
EXTENDS Integers, Sequences, FiniteSets, TLC

(* ---------------------------------------------------------------------- *)
(* JavaScript values                                                       *)
(* ---------------------------------------------------------------------- *)

\* null, for the string-valued state (mediaSource, audioUrl, videoBlobUrl)
NULL == "null"

\* undefined, for a text field that is absent
UNDEF == "undefined"

\* !t for a text value: undefined and the empty string are falsy
Falsy(t) == t \in {UNDEF, ""}

\* t || ""
OrEmpty(t) == IF Falsy(t) THEN "" ELSE t

\* error === null
NoError == <<>>

\* s.startsWith(p), on token sequences
StartsWith(s, p) == Len(s) >= Len(p) /\ SubSeq(s, 1, Len(p)) = p

\* a sequence without its i-th element
RemoveAt(s, i) == SubSeq(s, 1, i - 1) \o SubSeq(s, i + 1, Len(s))

(* ---------------------------------------------------------------------- *)
(* Bounds and inputs                                                       *)
(* ---------------------------------------------------------------------- *)

\* invocations of one async function that may be suspended at once
MaxInFlight == 2

\* the animation-frame clock stops being advanced past this time (ms)
MaxTime == 17000

\* the animation-frame clock when the page is ready (ms)
InitialTime == 1000

\* the MIME types of the files the user picks, as tokens
MimeTypes ==
    { <<"image", "/", "png">>, <<"video", "/", "mp4">>, <<"video">>, <<>> }

\* e.target.files?.[0]: a file, or none
FileInputs ==
    { [present |-> FALSE, type |-> <<>>] }
        \cup { [present |-> TRUE, type |-> m] : m \in MimeTypes }

\* the decoded narration's length in bytes goes up to
\* MaxPayloadSteps * PayloadStep, past 2^24
PayloadStep == 420029
MaxPayloadSteps == 40
PayloadLengths == { k * PayloadStep : k \in 0..MaxPayloadSteps }

\* one second of 16-bit mono PCM at 24 kHz
OneSecondPcm == 48000

ImageFile == [present |-> TRUE, type |-> <<"image", "/", "png">>]
VideoFile == [present |-> TRUE, type |-> <<"video", "/", "mp4">>]

\* what the user types into a text field
UserTexts == { "", "typed" }

\* err.message of a rejected fetch or generateContent call
ErrMessages == { "", "Failed to fetch" }

\* response.text of the vision model
FullJSON == "{\"headline\":\"hA\",\"script\":\"sA\"}"
ResponseTexts == { UNDEF, "{}", "null", "0", "<html>", FullJSON }

(* ---------------------------------------------------------------------- *)
(* State                                                                   *)
(* ---------------------------------------------------------------------- *)

VARIABLES
    mediaSource,          \* NULL, or the type of the uploaded media
    manualHeadline,
    manualScript,
    activeScriptType,     \* "auto" | "manual"
    voiceGender,          \* "male" | "female"
    isAnalyzing,
    isGeneratingAudio,
    isRecording,
    productInfo,          \* [kind, headline, script]; kind "null" is null
    audioUrl,
    videoBlobUrl,
    error,                \* NoError, or the parts of the message
    recordingProgress,    \* [num, den]: the value 100 * num / den
    useBackgroundMusic,
    analyses,             \* suspended analyzeProduct invocations
    audios,               \* suspended generateAudio invocations
    recordings,           \* suspended / running startRecording invocations
    now,                  \* the last animation-frame timestamp (ms)
    lastOp,               \* the handler or continuation that ran last
    done,                 \* the workflow steps that have completed so far
    audioBlob             \* the Blob behind the last narration's object URL

reactVars ==
    << mediaSource, manualHeadline, manualScript, activeScriptType,
       voiceGender, isAnalyzing, isGeneratingAudio, isRecording, productInfo,
       audioUrl, videoBlobUrl, error, recordingProgress, useBackgroundMusic >>

asyncVars == << analyses, audios, recordings, now >>

wavVars == << audioBlob >>

vars == << reactVars, asyncVars, lastOp, done, wavVars >>

(* ---------------------------------------------------------------------- *)
(* Values of the component                                                 *)
(* ---------------------------------------------------------------------- *)

\* a value of the productInfo state: null, a falsy primitive, or an object
\* with its headline and script fields (UNDEF when absent)
PInfo(k, h, s) == [kind |-> k, headline |-> h, script |-> s]

PNull == PInfo("null", UNDEF, UNDEF)

\* productInfo && ..., !productInfo
Truthy(p) == p.kind = "object"

\* JSON.parse(text): whether it returns, and the value
ParseJSON(text) ==
    CASE text = "{}"     -> [ok |-> TRUE,  value |-> PInfo("object", UNDEF, UNDEF)]
      [] text = FullJSON -> [ok |-> TRUE,  value |-> PInfo("object", "hA", "sA")]
      [] text = "null"   -> [ok |-> TRUE,  value |-> PNull]
      [] text = "0"      -> [ok |-> TRUE,  value |-> PInfo("falsy", UNDEF, UNDEF)]
      [] OTHER           -> [ok |-> FALSE, value |-> PNull]

\* `Erro na análise: ${err.message || "Verifique sua GEMINI_API_KEY no Vercel."}`
AnalysisError(message) ==
    << "Erro na análise: ",
       IF message = "" THEN "Verifique sua GEMINI_API_KEY no Vercel." ELSE message >>

\* a variant of MediaType that tests the leading token only ('video')
MediaTypeLoose(file) ==
    IF StartsWith(file.type, <<"video">>) THEN "video" ELSE "image"

\* file.type.startsWith('video/') ? 'video' : 'image'
MediaType(file) ==
    IF StartsWith(file.type, <<"video", "/">>) THEN "video" ELSE "image"

\* the handler (or continuation) that ran, how it ended, and its input: the
\* text it was given (as a sequence of strings) or the size it was given
OpIn(name, outcome, input) ==
    [op |-> name, outcome |-> outcome, input |-> input, size |-> 0]
OpSize(name, outcome, size) ==
    [op |-> name, outcome |-> outcome, input |-> <<>>, size |-> size]
Op(name, outcome) == OpIn(name, outcome, <<>>)

\* the k-th byte of v, from the least significant
Byte(v, k) == (v \div (256 ^ k)) % 256

\* a variant of SetUint32 that ignores littleEndian (always big-endian)
SetUint32BigEndian(h, offset, value, littleEndian) ==
    [ j \in 1..Len(h) |->
        IF j - 1 \in offset..(offset + 3)
        THEN Byte(value, 3 - (j - 1 - offset))
        ELSE h[j] ]

\* DataView.setUint32(offset, value, littleEndian) on the bytes h: the four
\* low bytes of the value (the value modulo 2^32) are stored
SetUint32(h, offset, value, littleEndian) ==
    [ j \in 1..Len(h) |->
        IF j - 1 \in offset..(offset + 3)
        THEN Byte(value,
                  IF littleEndian THEN j - 1 - offset ELSE 3 - (j - 1 - offset))
        ELSE h[j] ]

\* DataView.setUint16(offset, value, littleEndian): the two low bytes
SetUint16(h, offset, value, littleEndian) ==
    [ j \in 1..Len(h) |->
        IF j - 1 \in offset..(offset + 1)
        THEN Byte(value,
                  IF littleEndian THEN j - 1 - offset ELSE 1 - (j - 1 - offset))
        ELSE h[j] ]

\* new ArrayBuffer(44)
WavHeaderBytes == 44

\* the header written for a payload of `length` bytes
WavHeader(length) ==
    LET h0  == [ j \in 1..WavHeaderBytes |-> 0 ]
        h1  == SetUint32(h0, 0, 1380533830, FALSE)      \* 0x52494646 "RIFF"
        h2  == SetUint32(h1, 4, 36 + length, TRUE)
        h3  == SetUint32(h2, 8, 1463899717, FALSE)      \* 0x57415645 "WAVE"
        h4  == SetUint32(h3, 12, 1718449184, FALSE)     \* 0x666d7420 "fmt "
        h5  == SetUint32(h4, 16, 16, TRUE)
        h6  == SetUint16(h5, 20, 1, TRUE)
        h7  == SetUint16(h6, 22, 1, TRUE)
        h8  == SetUint32(h7, 24, 24000, TRUE)
        h9  == SetUint32(h8, 28, 24000 * 2, TRUE)
        h10 == SetUint16(h9, 32, 2, TRUE)
        h11 == SetUint16(h10, 34, 16, TRUE)
        h12 == SetUint32(h11, 36, 1684108385, FALSE)    \* 0x64617461 "data"
    IN  SetUint32(h12, 40, length, TRUE)

\* new Blob([wavHeader, bytes]): the header's bytes, then the payload's
\* (of which the model keeps the count)
WavBlob(length) == [header |-> WavHeader(length), payload |-> length]

\* WavBlob, tabulated over the payload lengths of the model
WavBlobOf == [ length \in PayloadLengths \cup {OneSecondPcm} |-> WavBlob(length) ]

\* no Blob yet
NoBlob == [header |-> <<>>, payload |-> 0]

\* blob.size
BlobSize(blob) == Len(blob.header) + blob.payload

Init ==
    /\ mediaSource = NULL
    /\ manualHeadline = ""
    /\ manualScript = ""
    /\ activeScriptType = "auto"
    /\ voiceGender = "female"
    /\ isAnalyzing = FALSE
    /\ isGeneratingAudio = FALSE
    /\ isRecording = FALSE
    /\ productInfo = PNull
    /\ audioUrl = NULL
    /\ videoBlobUrl = NULL
    /\ error = NoError
    /\ recordingProgress = [num |-> 0, den |-> 1]
    /\ useBackgroundMusic = TRUE
    /\ analyses = <<>>
    /\ audios = <<>>
    /\ recordings = <<>>
    /\ now = InitialTime
    /\ lastOp = Op("mount", "")
    /\ done = {}
    /\ audioBlob = NoBlob

(* ---------------------------------------------------------------------- *)
(* handleMediaUpload                                                       *)
(* ---------------------------------------------------------------------- *)

handleMediaUpload(file) ==
    /\ IF file.present
       THEN /\ mediaSource' = MediaType(file)
            /\ productInfo' = PNull
            /\ audioUrl' = NULL
            /\ videoBlobUrl' = NULL
            /\ error' = NoError
            /\ done' = done \cup {"upload"}
            /\ lastOp' = OpIn("handleMediaUpload", "file", file.type)
       ELSE /\ UNCHANGED << mediaSource, productInfo, audioUrl, videoBlobUrl,
                            error, done >>
            /\ lastOp' = Op("handleMediaUpload", "no file")
    /\ UNCHANGED << manualHeadline, manualScript, activeScriptType, voiceGender,
                    isAnalyzing, isGeneratingAudio, isRecording,
                    recordingProgress, useBackgroundMusic >>
    /\ UNCHANGED << asyncVars, wavVars >>

(* ---------------------------------------------------------------------- *)
(* analyzeProduct                                                          *)
(* ---------------------------------------------------------------------- *)

\* a variant of AnalyzeButtonEnabled whose button stays enabled while busy
AnalyzeButtonNeverBusy == mediaSource # NULL

\* the "Gerar Roteiro Viral" button: disabled={!mediaSource || isAnalyzing}
AnalyzeButtonEnabled == mediaSource # NULL /\ ~isAnalyzing

\* a variant of AnalyzeCatch that sends the request again when it was rejected
AnalyzeCatchRetry(i, message, outcome) ==
    /\ error' = AnalysisError(message)
    /\ IF outcome = "api throws"
       THEN /\ isAnalyzing' = TRUE
            /\ analyses' = [analyses EXCEPT ![i].requests = @ + 1]
       ELSE /\ isAnalyzing' = FALSE
            /\ analyses' = RemoveAt(analyses, i)
    /\ lastOp' = Op("analyzeProduct", outcome)

\* the catch and finally blocks, for the invocation at index i
AnalyzeCatch(i, message, outcome) ==
    /\ error' = AnalysisError(message)
    /\ isAnalyzing' = FALSE
    /\ analyses' = RemoveAt(analyses, i)
    /\ lastOp' = Op("analyzeProduct", outcome)

\* the click: the function up to its first await.  new GoogleGenAI may
\* throw before anything is awaited; then catch and finally run at once.
analyzeProduct(throws, message) ==
    /\ AnalyzeButtonEnabled
    /\ mediaSource # NULL
    /\ Len(analyses) < MaxInFlight
    /\ IF throws
       THEN /\ error' = AnalysisError(message)
            /\ isAnalyzing' = FALSE
            /\ UNCHANGED analyses
            /\ lastOp' = Op("analyzeProduct", "init throws")
       ELSE /\ error' = NoError
            /\ isAnalyzing' = TRUE
            /\ analyses' = Append(analyses,
                   [pc |-> "loading", type |-> mediaSource, requests |-> 0])
            /\ lastOp' = Op("analyzeProduct", "started")
    /\ UNCHANGED << mediaSource, manualHeadline, manualScript, activeScriptType,
                    voiceGender, isGeneratingAudio, isRecording, productInfo,
                    audioUrl, videoBlobUrl, recordingProgress,
                    useBackgroundMusic >>
    /\ UNCHANGED << audios, recordings, now, done, wavVars >>

\* the media is read (fetch and FileReader, or the video's seeked event) and
\* ai.models.generateContent is called
AnalyzeSendRequest(i) ==
    /\ i \in 1..Len(analyses)
    /\ analyses[i].pc = "loading"
    /\ analyses' = [analyses EXCEPT ![i].pc = "awaiting",
                                    ![i].requests = @ + 1]
    /\ lastOp' = Op("analyzeProduct", "request sent")
    /\ UNCHANGED << reactVars, audios, recordings, now, done, wavVars >>

\* fetch(mediaSource.url) rejects (the image branch)
AnalyzeFetchFails(i, message) ==
    /\ i \in 1..Len(analyses)
    /\ analyses[i].pc = "loading"
    /\ analyses[i].type = "image"
    /\ AnalyzeCatch(i, message, "fetch throws")
    /\ UNCHANGED << mediaSource, manualHeadline, manualScript, activeScriptType,
                    voiceGender, isGeneratingAudio, isRecording, productInfo,
                    audioUrl, videoBlobUrl, recordingProgress,
                    useBackgroundMusic >>
    /\ UNCHANGED << audios, recordings, now, done, wavVars >>

\* generateContent rejects
AnalyzeRequestFails(i, message) ==
    /\ i \in 1..Len(analyses)
    /\ analyses[i].pc = "awaiting"
    /\ AnalyzeCatch(i, message, "api throws")
    /\ UNCHANGED << mediaSource, manualHeadline, manualScript, activeScriptType,
                    voiceGender, isGeneratingAudio, isRecording, productInfo,
                    audioUrl, videoBlobUrl, recordingProgress,
                    useBackgroundMusic >>
    /\ UNCHANGED << audios, recordings, now, done, wavVars >>

\* generateContent resolves: JSON.parse(response.text || "{}") and the
\* three state updates, any of which may throw into the catch block
AnalyzeResponse(i, text) ==
    /\ i \in 1..Len(analyses)
    /\ analyses[i].pc = "awaiting"
    /\ LET parsed == ParseJSON(IF Falsy(text) THEN "{}" ELSE text)
           data == parsed.value
       IN  IF ~parsed.ok
           THEN /\ AnalyzeCatch(i, "Unexpected token", "parse throws")
                /\ UNCHANGED << productInfo, manualHeadline, manualScript, done >>
           ELSE IF data.kind = "null"
           THEN \* setProductInfo(null), then data.headline throws
                /\ productInfo' = data
                /\ AnalyzeCatch(i, "Cannot read properties of null",
                                "property read throws")
                /\ UNCHANGED << manualHeadline, manualScript, done >>
           ELSE /\ productInfo' = data
                /\ manualHeadline' = OrEmpty(data.headline)
                /\ manualScript' = OrEmpty(data.script)
                /\ isAnalyzing' = FALSE
                /\ analyses' = RemoveAt(analyses, i)
                /\ done' = done \cup {"analysis"}
                /\ lastOp' = OpIn("analyzeProduct", "ok", <<text>>)
                /\ UNCHANGED error
    /\ UNCHANGED << mediaSource, activeScriptType, voiceGender,
                    isGeneratingAudio, isRecording, audioUrl, videoBlobUrl,
                    recordingProgress, useBackgroundMusic >>
    /\ UNCHANGED << audios, recordings, now, wavVars >>

(* ---------------------------------------------------------------------- *)
(* generateAudio                                                           *)
(* ---------------------------------------------------------------------- *)

\* a variant of ScriptToUse that ignores the script mode
ScriptToUseAuto == productInfo.script

\* activeScriptType === 'auto' ? productInfo?.script : manualScript
ScriptToUse ==
    IF activeScriptType = "auto" THEN productInfo.script ELSE manualScript

\* voiceGender === 'female' ? 'Kore' : 'Puck'
VoiceName == IF voiceGender = "female" THEN "Kore" ELSE "Puck"

\* the two "Gerar Voz" buttons, both inside the productInfo card: the one in
\* the header is shown while there is no audioUrl and is disabled by
\* isGeneratingAudio; the one under the script fields is also disabled in
\* manual mode with an empty manualScript
GenerateButtonEnabled ==
    /\ Truthy(productInfo)
    /\ ~isGeneratingAudio
    /\ \/ audioUrl = NULL
       \/ ~(activeScriptType = "manual" /\ Falsy(manualScript))

AudioError == << "Erro ao gerar a narração." >>

\* the click: the function up to its await of generateContent.  A throw
\* before the request leaves (new GoogleGenAI) runs catch and finally at once.
generateAudio(throws) ==
    /\ GenerateButtonEnabled
    /\ Len(audios) < MaxInFlight
    /\ IF Falsy(ScriptToUse)
       THEN /\ UNCHANGED << isGeneratingAudio, error, audios >>
            /\ lastOp' = Op("generateAudio", "no script")
       ELSE IF throws
       THEN /\ error' = AudioError
            /\ isGeneratingAudio' = FALSE
            /\ UNCHANGED audios
            /\ lastOp' = Op("generateAudio", "init throws")
       ELSE /\ error' = NoError
            /\ isGeneratingAudio' = TRUE
            /\ audios' = Append(audios,
                   [text |-> ScriptToUse, voice |-> VoiceName, requests |-> 1])
            /\ lastOp' = Op("generateAudio", "started")
    /\ UNCHANGED << mediaSource, manualHeadline, manualScript, activeScriptType,
                    voiceGender, isAnalyzing, isRecording, productInfo,
                    audioUrl, videoBlobUrl, recordingProgress,
                    useBackgroundMusic >>
    /\ UNCHANGED << analyses, recordings, now, done, wavVars >>

\* generateContent rejects
AudioRequestFails(i) ==
    /\ i \in 1..Len(audios)
    /\ error' = AudioError
    /\ isGeneratingAudio' = FALSE
    /\ audios' = RemoveAt(audios, i)
    /\ lastOp' = Op("generateAudio", "api throws")
    /\ UNCHANGED << mediaSource, manualHeadline, manualScript, activeScriptType,
                    voiceGender, isAnalyzing, isRecording, productInfo,
                    audioUrl, videoBlobUrl, recordingProgress,
                    useBackgroundMusic >>
    /\ UNCHANGED << analyses, recordings, now, done, wavVars >>

\* what the response carries at candidates[0].content.parts[0].inlineData.data
AudioPayloads == { "absent", "not base64", "pcm" }

\* generateContent resolves; a "pcm" payload decodes to `length` bytes
AudioResponse(i, payload, length) ==
    /\ i \in 1..Len(audios)
    /\ IF payload = "absent"
       THEN /\ UNCHANGED << audioUrl, error, done, audioBlob >>
            /\ lastOp' = Op("generateAudio", "no audio")
       ELSE IF payload = "not base64"
       THEN \* window.atob throws
            /\ error' = AudioError
            /\ UNCHANGED << audioUrl, done, audioBlob >>
            /\ lastOp' = Op("generateAudio", "atob throws")
       ELSE /\ audioBlob' = WavBlobOf[length]
            /\ audioUrl' = "blob:wav"
            /\ done' = done \cup {"audio"}
            /\ UNCHANGED error
            /\ lastOp' = OpSize("generateAudio", "ok", length)
    /\ isGeneratingAudio' = FALSE
    /\ audios' = RemoveAt(audios, i)
    /\ UNCHANGED << mediaSource, manualHeadline, manualScript, activeScriptType,
                    voiceGender, isAnalyzing, isRecording, productInfo,
                    videoBlobUrl, recordingProgress, useBackgroundMusic >>
    /\ UNCHANGED << analyses, recordings, now >>

(* ---------------------------------------------------------------------- *)
(* The form controls                                                       *)
(* ---------------------------------------------------------------------- *)

\* the voice buttons (always shown)
setVoiceGender(g) ==
    /\ voiceGender' = g
    /\ lastOp' = Op("setVoiceGender", g)
    /\ UNCHANGED << mediaSource, manualHeadline, manualScript, activeScriptType,
                    isAnalyzing, isGeneratingAudio, isRecording, productInfo,
                    audioUrl, videoBlobUrl, error, recordingProgress,
                    useBackgroundMusic >>
    /\ UNCHANGED << asyncVars, done, wavVars >>

\* the script tabs (inside the productInfo card)
setActiveScriptType(t) ==
    /\ Truthy(productInfo)
    /\ activeScriptType' = t
    /\ lastOp' = Op("setActiveScriptType", t)
    /\ UNCHANGED << mediaSource, manualHeadline, manualScript, voiceGender,
                    isAnalyzing, isGeneratingAudio, isRecording, productInfo,
                    audioUrl, videoBlobUrl, error, recordingProgress,
                    useBackgroundMusic >>
    /\ UNCHANGED << asyncVars, done, wavVars >>

\* the music switch (inside the productInfo card)
setUseBackgroundMusic ==
    /\ Truthy(productInfo)
    /\ useBackgroundMusic' = ~useBackgroundMusic
    /\ lastOp' = Op("setUseBackgroundMusic", "")
    /\ UNCHANGED << mediaSource, manualHeadline, manualScript, activeScriptType,
                    voiceGender, isAnalyzing, isGeneratingAudio, isRecording,
                    productInfo, audioUrl, videoBlobUrl, error,
                    recordingProgress >>
    /\ UNCHANGED << asyncVars, done, wavVars >>

\* the manual tab's two fields
setManualHeadline(text) ==
    /\ Truthy(productInfo)
    /\ activeScriptType = "manual"
    /\ manualHeadline' = text
    /\ lastOp' = Op("setManualHeadline", text)
    /\ UNCHANGED << mediaSource, manualScript, activeScriptType, voiceGender,
                    isAnalyzing, isGeneratingAudio, isRecording, productInfo,
                    audioUrl, videoBlobUrl, error, recordingProgress,
                    useBackgroundMusic >>
    /\ UNCHANGED << asyncVars, done, wavVars >>

setManualScript(text) ==
    /\ Truthy(productInfo)
    /\ activeScriptType = "manual"
    /\ manualScript' = text
    /\ lastOp' = Op("setManualScript", text)
    /\ UNCHANGED << mediaSource, manualHeadline, activeScriptType, voiceGender,
                    isAnalyzing, isGeneratingAudio, isRecording, productInfo,
                    audioUrl, videoBlobUrl, error, recordingProgress,
                    useBackgroundMusic >>
    /\ UNCHANGED << asyncVars, done, wavVars >>

\* the auto tab's script field: setProductInfo({...productInfo, script})
setProductInfoScript(text) ==
    /\ Truthy(productInfo)
    /\ activeScriptType = "auto"
    /\ productInfo' = [productInfo EXCEPT !.script = text]
    /\ lastOp' = Op("setProductInfoScript", text)
    /\ UNCHANGED << mediaSource, manualHeadline, manualScript, activeScriptType,
                    voiceGender, isAnalyzing, isGeneratingAudio, isRecording,
                    audioUrl, videoBlobUrl, error, recordingProgress,
                    useBackgroundMusic >>
    /\ UNCHANGED << asyncVars, done, wavVars >>

(* ---------------------------------------------------------------------- *)
(* startRecording                                                          *)
(* ---------------------------------------------------------------------- *)

\* audio.duration when it is not a number
NaN == -1

\* audio.duration (seconds) once the narration's metadata has loaded
AudioDurations == { NaN, 0, 1 }

\* the time between two animation frames (ms), coarse enough that a
\* recording is a handful of frames
FrameDeltas == { 2500, 4000 }

Min(a, b) == IF a < b THEN a ELSE b

\* a variant of Duration without the 1.5 s buffer
DurationNoBuffer(audioDuration) ==
    (IF audioDuration # 0 /\ audioDuration # NaN THEN audioDuration ELSE 10)
        * 1000

\* (audioDuration && !isNaN(audioDuration) ? audioDuration : 10) * 1000 + 1500
Duration(audioDuration) ==
    (IF audioDuration # 0 /\ audioDuration # NaN THEN audioDuration ELSE 10)
        * 1000 + 1500

\* a variant of RecordButtonEnabled whose button stays enabled while recording
RecordButtonNeverBusy ==
    /\ Truthy(productInfo)
    /\ audioUrl # NULL

\* the "Gravar Video Story" button, inside the productInfo card:
\* disabled={!audioUrl || isRecording}
RecordButtonEnabled ==
    /\ Truthy(productInfo)
    /\ audioUrl # NULL
    /\ ~isRecording

\* !canvasRef.current || !audioUrl || !mediaSource || !productInfo, negated
\* (the canvas is mounted with the productInfo card)
StartRecordingGuard ==
    /\ Truthy(productInfo)
    /\ audioUrl # NULL
    /\ mediaSource # NULL
    /\ productInfo.kind # "null" /\ productInfo.kind # "falsy"

\* a click on the record button when it is `enabled`: startRecording up to
\* its await of the narration's metadata, returning at once unless `guard`
ClickStartRecording(enabled, guard) ==
    /\ enabled
    /\ Len(recordings) < MaxInFlight
    /\ IF ~guard
       THEN /\ UNCHANGED << isRecording, recordingProgress, videoBlobUrl,
                            recordings >>
            /\ lastOp' = Op("startRecording", "return")
       ELSE /\ isRecording' = TRUE
            /\ recordingProgress' = [num |-> 0, den |-> 1]
            /\ videoBlobUrl' = NULL
            /\ recordings' = Append(recordings,
                   [ pc        |-> "audio loading",
                     type      |-> mediaSource,
                     music     |-> useBackgroundMusic,
                     audioDuration |-> NaN,
                     duration  |-> 0,
                     startTime |-> 0,
                     timestamp |-> 0,
                     frames    |-> 0,
                     recorder  |-> "none",
                     stops     |-> 0,
                     audio     |-> "loading",
                     bgm       |-> "none",
                     asset     |-> "none" ])
            /\ lastOp' = Op("startRecording", "started")
    /\ UNCHANGED << mediaSource, manualHeadline, manualScript, activeScriptType,
                    voiceGender, isAnalyzing, isGeneratingAudio, productInfo,
                    audioUrl, error, useBackgroundMusic >>
    /\ UNCHANGED << analyses, audios, now, done, wavVars >>

\* a variant of startRecording in which neither the button nor the function
\* looks at audioUrl
startRecordingWithoutAudio ==
    ClickStartRecording(Truthy(productInfo) /\ ~isRecording,
                        Truthy(productInfo) /\ mediaSource # NULL)

startRecording == ClickStartRecording(RecordButtonEnabled, StartRecordingGuard)

\* a variant of RecordingAudioFails whose catch block does not return: the
\* error is stored and the function goes on to set up the recorder
RecordingAudioFailsGoesOn(i, message) ==
    /\ i \in 1..Len(recordings)
    /\ recordings[i].pc = "audio loading"
    /\ error' = << message >>
    /\ recordings' = [recordings EXCEPT
           ![i].pc = "asset loading",
           ![i].recorder = "inactive",
           ![i].asset = "loading"]
    /\ lastOp' = Op("startRecording", "audio fails")
    /\ UNCHANGED << mediaSource, manualHeadline, manualScript, activeScriptType,
                    voiceGender, isAnalyzing, isGeneratingAudio, isRecording,
                    productInfo, audioUrl, videoBlobUrl, recordingProgress,
                    useBackgroundMusic >>
    /\ UNCHANGED << analyses, audios, now, done, wavVars >>

\* audio.onerror, or the 5 s timeout: the catch block
RecordingAudioFails(i, message) ==
    /\ i \in 1..Len(recordings)
    /\ recordings[i].pc = "audio loading"
    /\ error' = << message >>
    /\ isRecording' = FALSE
    /\ recordings' = RemoveAt(recordings, i)
    /\ lastOp' = Op("startRecording", "audio fails")
    /\ UNCHANGED << mediaSource, manualHeadline, manualScript, activeScriptType,
                    voiceGender, isAnalyzing, isGeneratingAudio, productInfo,
                    audioUrl, videoBlobUrl, recordingProgress,
                    useBackgroundMusic >>
    /\ UNCHANGED << analyses, audios, now, done, wavVars >>

AudioLoadMessages ==
    { "Erro ao carregar áudio da narração.", "Tempo esgotado ao carregar áudio." }

\* audio.onloadedmetadata: the audio graph, the background music (dropped
\* when createMediaElementSource throws), the MediaRecorder and its
\* handlers, and the asset whose load is awaited next
RecordingAudioLoaded(i, audioDuration, bgmThrows) ==
    /\ i \in 1..Len(recordings)
    /\ recordings[i].pc = "audio loading"
    /\ recordings' = [recordings EXCEPT
           ![i].pc = "asset loading",
           ![i].audio = "ready",
           ![i].audioDuration = audioDuration,
           ![i].bgm = IF recordings[i].music /\ ~bgmThrows THEN "ready" ELSE "none",
           ![i].recorder = "inactive",
           ![i].asset = "loading"]
    /\ lastOp' = Op("startRecording", "audio loaded")
    /\ UNCHANGED << reactVars, analyses, audios, now, done, wavVars >>

\* the image's onload or the video's onloadedmetadata (asset.play()), then
\* recorder.start(); a suspended AudioContext is resumed before the rest
RecordingAssetLoaded(i, suspended) ==
    /\ i \in 1..Len(recordings)
    /\ recordings[i].pc = "asset loading"
    /\ LET r == recordings[i]
           loaded == [r EXCEPT
               !.asset = IF r.type = "video" THEN "playing" ELSE "loaded",
               !.duration = Duration(r.audioDuration),
               !.recorder = "recording"]
       IN  recordings' = [recordings EXCEPT ![i] =
               IF suspended
               THEN [loaded EXCEPT !.pc = "resuming"]
               ELSE [loaded EXCEPT
                        !.pc = "returned",
                        !.audio = "playing",
                        !.bgm = IF r.bgm = "none" THEN "none" ELSE "playing",
                        !.frames = @ + 1]]
    /\ lastOp' = Op("startRecording", "asset loaded")
    /\ UNCHANGED << reactVars, analyses, audios, now, done, wavVars >>

\* the image or video does not load (its error event, for which no handler
\* is set, or no event at all): the awaited promise is never settled and the
\* invocation stays suspended
RecordingAssetFails(i) ==
    /\ i \in 1..Len(recordings)
    /\ recordings[i].pc = "asset loading"
    /\ recordings' = [recordings EXCEPT
           ![i].pc = "asset failed",
           ![i].asset = "error"]
    /\ lastOp' = Op("startRecording", "asset fails")
    /\ UNCHANGED << reactVars, analyses, audios, now, done, wavVars >>

\* audioCtx.resume() resolves: audio.play(), bgm.play() and the first
\* requestAnimationFrame(draw)
RecordingResumed(i) ==
    /\ i \in 1..Len(recordings)
    /\ recordings[i].pc = "resuming"
    /\ recordings' = [recordings EXCEPT
           ![i].pc = "returned",
           ![i].audio = "playing",
           ![i].bgm = IF @ = "none" THEN "none" ELSE "playing",
           ![i].frames = @ + 1]
    /\ lastOp' = Op("startRecording", "resumed")
    /\ UNCHANGED << reactVars, analyses, audios, now, done, wavVars >>

\* a variant of Progress without the Math.min
ProgressUnclamped(elapsed, duration) == [num |-> elapsed, den |-> duration]

\* progress = Math.min(elapsed / duration, 1), as the fraction num / den;
\* setRecordingProgress(progress * 100) stores 100 * num / den
Progress(elapsed, duration) ==
    [num |-> Min(elapsed, duration), den |-> duration]

\* progress < 1, for progress = Math.min(elapsed / duration, 1)
ProgressBelowOne(elapsed, duration) == Min(elapsed, duration) < duration

\* a variant of FramesAfterDraw that requests the next frame unconditionally
FramesAlwaysRequested(frames, below) == frames - 1 + 1

\* the callbacks still scheduled after a draw call that ran as one of
\* `frames`: if (progress < 1) requestAnimationFrame(draw)
FramesAfterDraw(frames, below) ==
    IF below THEN frames - 1 + 1 ELSE frames - 1

\* one animation frame: draw(timestamp)
draw(i, delta) ==
    /\ i \in 1..Len(recordings)
    /\ recordings[i].frames > 0
    /\ now + delta <= MaxTime
    /\ LET r == recordings[i]
           timestamp == now + delta
           startTime == IF r.startTime = 0 THEN timestamp ELSE r.startTime
           elapsed == timestamp - startTime
           below == ProgressBelowOne(elapsed, r.duration)
           drawn == [r EXCEPT !.startTime = startTime,
                              !.timestamp = timestamp,
                              !.frames = FramesAfterDraw(@, below)]
       IN  /\ now' = timestamp
           /\ recordingProgress' = Progress(elapsed, r.duration)
           /\ IF below
              THEN /\ recordings' = [recordings EXCEPT ![i] = drawn]
                   /\ lastOp' = Op("draw", "next frame")
              ELSE /\ recordings' = [recordings EXCEPT ![i] =
                          [drawn EXCEPT
                              !.recorder = "stopping",
                              !.stops = @ + 1,
                              !.audio = "paused",
                              !.bgm = IF @ = "none" THEN "none" ELSE "paused",
                              !.asset = IF r.type = "video" THEN "paused" ELSE @]]
                   /\ lastOp' = Op("draw", "stop")
    /\ UNCHANGED << mediaSource, manualHeadline, manualScript, activeScriptType,
                    voiceGender, isAnalyzing, isGeneratingAudio, isRecording,
                    productInfo, audioUrl, videoBlobUrl, error,
                    useBackgroundMusic >>
    /\ UNCHANGED << analyses, audios, done, wavVars >>

\* recorder.onstop
RecorderOnStop(i) ==
    /\ i \in 1..Len(recordings)
    /\ recordings[i].recorder = "stopping"
    /\ videoBlobUrl' = "blob:video"
    /\ isRecording' = FALSE
    /\ recordings' = RemoveAt(recordings, i)
    /\ done' = done \cup {"video"}
    /\ lastOp' = Op("recorder.onstop", "")
    /\ UNCHANGED << mediaSource, manualHeadline, manualScript, activeScriptType,
                    voiceGender, isAnalyzing, isGeneratingAudio, productInfo,
                    audioUrl, error, recordingProgress, useBackgroundMusic >>
    /\ UNCHANGED << analyses, audios, now, wavVars >>

(* ---------------------------------------------------------------------- *)
(* The component                                                           *)
(* ---------------------------------------------------------------------- *)

\* the recording pipeline in detail: every audio duration and frame spacing,
\* one analysis result and one narration
NextRecording ==
    \/ \E file \in { ImageFile, VideoFile } : handleMediaUpload(file)
    \/ analyzeProduct(FALSE, "")
    \/ \E i \in 1..MaxInFlight : AnalyzeSendRequest(i)
    \/ \E i \in 1..MaxInFlight : AnalyzeResponse(i, FullJSON)
    \/ generateAudio(FALSE)
    \/ \E i \in 1..MaxInFlight : AudioResponse(i, "pcm", OneSecondPcm)
    \/ setUseBackgroundMusic
    \/ startRecording
    \/ \E i \in 1..MaxInFlight, m \in AudioLoadMessages : RecordingAudioFails(i, m)
    \/ \E i \in 1..MaxInFlight, d \in AudioDurations, b \in BOOLEAN :
           RecordingAudioLoaded(i, d, b)
    \/ \E i \in 1..MaxInFlight, s \in BOOLEAN : RecordingAssetLoaded(i, s)
    \/ \E i \in 1..MaxInFlight : RecordingResumed(i)
    \/ \E i \in 1..MaxInFlight, delta \in FrameDeltas : draw(i, delta)
    \/ \E i \in 1..MaxInFlight : RecorderOnStop(i)

SpecRecording == Init /\ [][NextRecording]_vars

\* the analysis in detail: every way the request ends and every response
\* of the vision model, the manual fields typed into; one narration, a
\* recording of two frames
NextAnalysis ==
    \/ \E file \in { ImageFile, VideoFile } : handleMediaUpload(file)
    \/ \E throws \in BOOLEAN, m \in ErrMessages : analyzeProduct(throws, m)
    \/ \E i \in 1..MaxInFlight : AnalyzeSendRequest(i)
    \/ \E i \in 1..MaxInFlight, m \in ErrMessages : AnalyzeFetchFails(i, m)
    \/ \E i \in 1..MaxInFlight, m \in ErrMessages : AnalyzeRequestFails(i, m)
    \/ \E i \in 1..MaxInFlight, t \in ResponseTexts : AnalyzeResponse(i, t)
    \/ generateAudio(FALSE)
    \/ \E i \in 1..MaxInFlight : AudioResponse(i, "pcm", OneSecondPcm)
    \/ \E t \in {"auto", "manual"} : setActiveScriptType(t)
    \/ \E text \in UserTexts : setManualHeadline(text)
    \/ \E text \in UserTexts : setManualScript(text)
    \/ startRecording
    \/ \E i \in 1..MaxInFlight : RecordingAudioLoaded(i, 1, FALSE)
    \/ \E i \in 1..MaxInFlight : RecordingAssetLoaded(i, FALSE)
    \/ \E i \in 1..MaxInFlight : draw(i, 4000)
    \/ \E i \in 1..MaxInFlight : RecorderOnStop(i)

SpecAnalysis == Init /\ [][NextAnalysis]_vars

\* the narration request in detail: both script modes and voices, the
\* script fields typed into, an analysis with and without a script
NextScript ==
    \/ handleMediaUpload(ImageFile)
    \/ analyzeProduct(FALSE, "")
    \/ \E i \in 1..MaxInFlight : AnalyzeSendRequest(i)
    \/ \E i \in 1..MaxInFlight, t \in {"{}", FullJSON} : AnalyzeResponse(i, t)
    \/ \E throws \in BOOLEAN : generateAudio(throws)
    \/ \E i \in 1..MaxInFlight : AudioRequestFails(i)
    \/ \E i \in 1..MaxInFlight, p \in AudioPayloads :
           AudioResponse(i, p, OneSecondPcm)
    \/ \E g \in {"male", "female"} : setVoiceGender(g)
    \/ \E t \in {"auto", "manual"} : setActiveScriptType(t)
    \/ \E text \in UserTexts : setManualScript(text)
    \/ \E text \in UserTexts : setProductInfoScript(text)

SpecScript == Init /\ [][NextScript]_vars

\* the narration's Blob in detail: every payload length
NextWav ==
    \/ handleMediaUpload(ImageFile)
    \/ analyzeProduct(FALSE, "")
    \/ \E i \in 1..MaxInFlight : AnalyzeSendRequest(i)
    \/ \E i \in 1..MaxInFlight : AnalyzeResponse(i, FullJSON)
    \/ generateAudio(FALSE)
    \/ \E i \in 1..MaxInFlight, length \in PayloadLengths :
           AudioResponse(i, "pcm", length)

SpecWav == Init /\ [][NextWav]_vars

\* what the browser does for a recording under way: the narration loads,
\* fails or times out, the asset loads or fails, resume() resolves, the
\* requested animation frame runs, the stop event is delivered
RecordingContinues ==
    \E i \in 1..MaxInFlight :
        \/ \E m \in AudioLoadMessages : RecordingAudioFails(i, m)
        \/ RecordingAudioLoaded(i, 1, FALSE)
        \/ \E s \in BOOLEAN : RecordingAssetLoaded(i, s)
        \/ RecordingAssetFails(i)
        \/ RecordingResumed(i)
        \/ draw(i, 4000)
        \/ RecorderOnStop(i)

\* recordings to their end: every outcome of loading the narration and the
\* asset, with the browser never leaving a pending event undelivered; a
\* recording starts only while the clock leaves room for its two frames
NextLive ==
    \/ \E file \in { ImageFile, VideoFile } : handleMediaUpload(file)
    \/ analyzeProduct(FALSE, "")
    \/ \E i \in 1..MaxInFlight : AnalyzeSendRequest(i)
    \/ \E i \in 1..MaxInFlight : AnalyzeResponse(i, FullJSON)
    \/ generateAudio(FALSE)
    \/ \E i \in 1..MaxInFlight : AudioResponse(i, "pcm", OneSecondPcm)
    \/ startRecording /\ now + 2 * 4000 <= MaxTime
    \/ \E i \in 1..MaxInFlight, m \in AudioLoadMessages : RecordingAudioFails(i, m)
    \/ \E i \in 1..MaxInFlight : RecordingAudioLoaded(i, 1, FALSE)
    \/ \E i \in 1..MaxInFlight, s \in BOOLEAN : RecordingAssetLoaded(i, s)
    \/ \E i \in 1..MaxInFlight : RecordingAssetFails(i)
    \/ \E i \in 1..MaxInFlight : RecordingResumed(i)
    \/ \E i \in 1..MaxInFlight : draw(i, 4000)
    \/ \E i \in 1..MaxInFlight : RecorderOnStop(i)

SpecLive == Init /\ [][NextLive]_vars /\ WF_vars(RecordingContinues)

\* the whole workflow: every handler and every way each request ends, with
\* one script, one audio duration and one frame spacing
Next ==
    \/ \E file \in FileInputs : handleMediaUpload(file)
    \/ \E throws \in BOOLEAN : analyzeProduct(throws, "")
    \/ \E i \in 1..MaxInFlight : AnalyzeSendRequest(i)
    \/ \E i \in 1..MaxInFlight : AnalyzeFetchFails(i, "")
    \/ \E i \in 1..MaxInFlight : AnalyzeRequestFails(i, "")
    \/ \E i \in 1..MaxInFlight, t \in {FullJSON, "<html>"} : AnalyzeResponse(i, t)
    \/ \E throws \in BOOLEAN : generateAudio(throws)
    \/ \E i \in 1..MaxInFlight : AudioRequestFails(i)
    \/ \E i \in 1..MaxInFlight, p \in AudioPayloads :
           AudioResponse(i, p, OneSecondPcm)
    \/ startRecording
    \/ \E i \in 1..MaxInFlight, m \in AudioLoadMessages : RecordingAudioFails(i, m)
    \/ \E i \in 1..MaxInFlight : RecordingAudioLoaded(i, 1, FALSE)
    \/ \E i \in 1..MaxInFlight, s \in BOOLEAN : RecordingAssetLoaded(i, s)
    \/ \E i \in 1..MaxInFlight : RecordingResumed(i)
    \/ \E i \in 1..MaxInFlight : draw(i, 4000)
    \/ \E i \in 1..MaxInFlight : RecorderOnStop(i)

Spec == Init /\ [][Next]_vars

(* ---------------------------------------------------------------------- *)
(* Properties                                                              *)
(* ---------------------------------------------------------------------- *)

\* C1: the workflow's steps complete in order.  A recorded video
\* (videoBlobUrl, set by recorder.onstop) exists only after a narration was
\* generated (audioUrl, set by generateAudio), a narration only after an
\* analysis produced productInfo, an analysis only after media was uploaded.
C1_StepsInOrder ==
    /\ videoBlobUrl # NULL => "video" \in done
    /\ audioUrl # NULL => "audio" \in done
    /\ Truthy(productInfo) => "analysis" \in done
    /\ mediaSource # NULL => "upload" \in done
    /\ "video" \in done => "audio" \in done
    /\ "audio" \in done => "analysis" \in done
    /\ "analysis" \in done => "upload" \in done

\* a video has been recorded
C1_Witness == videoBlobUrl # NULL /\ lastOp.op = "recorder.onstop"

\* the startRecording invocations whose MediaRecorder is recording or whose
\* draw loop has a frame requested
ActivePipelines ==
    { i \in 1..Len(recordings) :
        recordings[i].recorder = "recording" \/ recordings[i].frames > 0 }

\* C2: whatever the user does through the UI, at most one recording pipeline
\* (one MediaRecorder with one requestAnimationFrame draw loop) is active at
\* any time, and its loop has at most one frame requested.
C2_OnePipeline ==
    /\ Cardinality(ActivePipelines) <= 1
    /\ \A i \in 1..Len(recordings) : recordings[i].frames <= 1

\* a pipeline is active: the recorder records and a frame is requested
C2_Witness ==
    \E i \in 1..Len(recordings) :
        recordings[i].recorder = "recording" /\ recordings[i].frames = 1

\* C3: the target duration in ms is the narration's duration times 1000 plus
\* 1500, and 11500 when the duration is 0 or NaN; the recorder is stopped at
\* the first frame whose time since the first frame reaches it, not before.
C3_DurationFollowsAudio ==
    \A i \in 1..Len(recordings) :
        LET r == recordings[i]
            target == IF r.audioDuration = 0 \/ r.audioDuration = NaN
                      THEN 11500
                      ELSE r.audioDuration * 1000 + 1500
        IN  /\ r.recorder \in {"recording", "stopping"} => r.duration = target
            /\ r.recorder = "recording" /\ r.startTime # 0
                   => r.timestamp - r.startTime < target
            /\ r.recorder = "stopping" => r.timestamp - r.startTime >= target

\* a recording of a narration of unknown duration was stopped past its target
C3_Witness ==
    \E i \in 1..Len(recordings) :
        /\ recordings[i].recorder = "stopping"
        /\ recordings[i].audioDuration = NaN
        /\ recordings[i].timestamp - recordings[i].startTime > 11500

\* C4: within one recording, while progress < 1 every draw call leaves exactly
\* one frame requested; at the first frame with progress = 1 recorder.stop()
\* is called exactly once, narration, background music and video asset are
\* paused and no frame is requested; then recorder.onstop sets videoBlobUrl
\* and resets isRecording.
C4_LoopEndsCleanly ==
    /\ \A i \in 1..Len(recordings) :
           LET r == recordings[i]
           IN  /\ r.recorder = "recording" /\ r.pc = "returned"
                      => r.frames = 1 /\ r.stops = 0
               /\ r.recorder = "stopping"
                      => /\ r.frames = 0
                         /\ r.stops = 1
                         /\ r.audio = "paused"
                         /\ r.bgm \in {"none", "paused"}
                         /\ r.type = "video" => r.asset = "paused"
    /\ lastOp.op = "draw" /\ lastOp.outcome = "stop"
           => recordingProgress.num = recordingProgress.den
    /\ lastOp.op = "draw" /\ lastOp.outcome = "next frame"
           => recordingProgress.num < recordingProgress.den
    /\ lastOp.op = "recorder.onstop" => videoBlobUrl # NULL /\ ~isRecording

\* a recording with music and a video asset ran to progress 1 and onstop ran
C4_Witness ==
    /\ lastOp.op = "recorder.onstop"
    /\ recordingProgress.num = recordingProgress.den
    /\ recordingProgress.den > 1
    /\ videoBlobUrl # NULL

\* C5: no retry.  An invocation of analyzeProduct or generateAudio issues at
\* most one generateContent request; when the request is rejected the error
\* is stored and the invocation is over, with no request left in flight.
C5_NoRetry ==
    /\ \A i \in 1..Len(analyses) : analyses[i].requests <= 1
    /\ \A i \in 1..Len(audios) : audios[i].requests <= 1
    /\ lastOp.op = "analyzeProduct" /\ lastOp.outcome = "api throws"
           => error # NoError /\ analyses = <<>> /\ ~isAnalyzing
    /\ lastOp.op = "generateAudio" /\ lastOp.outcome = "api throws"
           => error # NoError /\ audios = <<>> /\ ~isGeneratingAudio

\* a generateContent request of analyzeProduct was rejected
C5_Witness ==
    /\ lastOp.op = "analyzeProduct"
    /\ lastOp.outcome = "api throws"
    /\ error # NoError

\* the unsigned little-endian numbers read back from the header bytes h
ReadUint16LE(h, offset) == h[offset + 1] + 256 * h[offset + 2]
ReadUint32LE(h, offset) ==
    h[offset + 1] + 256 * h[offset + 2] + 65536 * h[offset + 3]
        + 16777216 * h[offset + 4]

\* C6: for a decoded payload of n bytes the Blob is a 44-byte WAV header and
\* the payload: RIFF chunk size 36 + n, data chunk size n, 44 + n bytes in
\* all, and format fields that agree (1 channel, 16 bits, 24000 Hz, block
\* align 2 = channels * bits / 8, byte rate 48000 = rate * block align).
C6_WavHeaderConsistent ==
    audioBlob # NoBlob =>
        LET h == audioBlob.header
            n == audioBlob.payload
            channels == ReadUint16LE(h, 22)
            rate == ReadUint32LE(h, 24)
            byteRate == ReadUint32LE(h, 28)
            blockAlign == ReadUint16LE(h, 32)
            bits == ReadUint16LE(h, 34)
        IN  /\ Len(h) = 44
            /\ lastOp.op = "generateAudio" /\ lastOp.outcome = "ok"
                   => n = lastOp.size
            /\ ReadUint32LE(h, 4) = 36 + n
            /\ ReadUint32LE(h, 40) = n
            /\ BlobSize(audioBlob) = 44 + n
            /\ channels = 1 /\ bits = 16 /\ rate = 24000
            /\ blockAlign = 2 /\ blockAlign * 8 = channels * bits
            /\ byteRate = 48000 /\ byteRate = rate * blockAlign

\* a narration whose payload needs all four bytes of the size fields
C6_Witness ==
    /\ audioUrl # NULL
    /\ audioBlob.payload > 16777216
    /\ lastOp.op = "generateAudio" /\ lastOp.outcome = "ok"

\* what C7 says of one step
C7_UploadStep ==
    LET o == lastOp'
    IN  /\ o.op = "handleMediaUpload" /\ o.outcome = "file"
               => /\ mediaSource' =
                        IF /\ Len(o.input) >= 2
                           /\ o.input[1] = "video"
                           /\ o.input[2] = "/"
                        THEN "video" ELSE "image"
                  /\ productInfo' = PNull
                  /\ audioUrl' = NULL
                  /\ videoBlobUrl' = NULL
                  /\ error' = NoError
                  /\ UNCHANGED << manualHeadline, manualScript, activeScriptType,
                                  voiceGender, isAnalyzing, isGeneratingAudio,
                                  isRecording, recordingProgress,
                                  useBackgroundMusic, asyncVars, audioBlob >>
        /\ o.op = "handleMediaUpload" /\ o.outcome = "no file"
               => UNCHANGED << reactVars, asyncVars, done, audioBlob >>

\* C7: handleMediaUpload with a file sets mediaSource ('video' exactly when
\* the MIME type starts with 'video/', else 'image') and resets productInfo,
\* audioUrl, videoBlobUrl and error to null; with no file it changes nothing.
C7_UploadResets == [][C7_UploadStep]_vars

\* a video file was uploaded after a whole story had been recorded
C7_Witness ==
    /\ lastOp.op = "handleMediaUpload"
    /\ lastOp.outcome = "file"
    /\ mediaSource = "video"
    /\ "video" \in done

\* C8: the busy flags mirror the requests in flight.  isAnalyzing holds
\* exactly while an analyzeProduct call is in flight, isGeneratingAudio
\* exactly while a generateAudio call is; at most one call of each kind is.
C8_BusyFlagsMirrorCalls ==
    /\ isAnalyzing <=> Len(analyses) > 0
    /\ isGeneratingAudio <=> Len(audios) > 0
    /\ Len(analyses) <= 1
    /\ Len(audios) <= 1

\* an analysis and a narration are in flight together
C8_Witness ==
    /\ isAnalyzing /\ Len(analyses) = 1
    /\ isGeneratingAudio /\ Len(audios) = 1

\* what C9 says of one step: an invocation that ended in the catch block
\* failed, one that ran its try block to the end succeeded
C9_AnalysisStep ==
    LET o == lastOp'
        failed == /\ o.op = "analyzeProduct"
                  /\ o.outcome \notin {"started", "request sent", "ok"}
    IN  /\ failed
               => /\ Len(error') = 2
                  /\ error'[1] = "Erro na análise: "
                  /\ UNCHANGED << productInfo, manualHeadline, manualScript,
                                  audioUrl, videoBlobUrl >>
        /\ o.op = "analyzeProduct" /\ o.outcome \in {"started", "request sent"}
               => UNCHANGED << productInfo, manualHeadline, manualScript,
                               audioUrl, videoBlobUrl >>
        /\ o.op = "analyzeProduct" /\ o.outcome = "ok"
               => /\ productInfo' =
                        ParseJSON(IF o.input[1] \in {UNDEF, ""}
                                  THEN "{}" ELSE o.input[1]).value
                  /\ manualHeadline' =
                        IF productInfo'.headline = UNDEF
                        THEN "" ELSE productInfo'.headline
                  /\ manualScript' =
                        IF productInfo'.script = UNDEF
                        THEN "" ELSE productInfo'.script

\* C9: when an analyzeProduct request fails, error becomes a message starting
\* 'Erro na análise:' and productInfo, manualHeadline, manualScript, audioUrl
\* and videoBlobUrl keep their values; when it succeeds productInfo is the
\* parsed response and manualHeadline and manualScript are its headline and
\* script ("" if absent).  A response that parses to null breaks this: it is
\* stored in productInfo before reading its headline throws.
C9_AnalysisOutcome == [][C9_AnalysisStep]_vars

\* what C10 says of one step
C10_NarrationStep ==
    LET o == lastOp'
        chosen == IF activeScriptType = "auto"
                  THEN productInfo.script ELSE manualScript
        voice == IF voiceGender = "female" THEN "Kore" ELSE "Puck"
        click == /\ o.op = "generateAudio"
                 /\ o.outcome \in {"started", "init throws", "no script"}
    IN  /\ click /\ chosen \in {UNDEF, ""}
               => UNCHANGED << reactVars, asyncVars, done, audioBlob >>
        /\ click /\ o.outcome = "started"
               => audios' = Append(audios,
                      [text |-> chosen, voice |-> voice, requests |-> 1])
        /\ click /\ o.outcome = "no script" => chosen \in {UNDEF, ""}

\* C10: the text sent for narration is productInfo.script in 'auto' mode and
\* manualScript in 'manual' mode (voice 'Kore' for female, 'Puck' for male),
\* as of the invocation; with that script empty or missing generateAudio
\* sends nothing and changes no state.
C10_NarrationText == [][C10_NarrationStep]_vars

\* the typed manual script is on its way with the male voice
C10_Witness ==
    /\ lastOp.op = "generateAudio"
    /\ lastOp.outcome = "started"
    /\ activeScriptType = "manual"
    /\ productInfo.script = "sA"
    /\ Len(audios) = 1
    /\ audios[1].text = "typed"
    /\ audios[1].voice = "Puck"

\* what C11 says of one step
C11_GuardStep ==
    LET o == lastOp'
        click == o.op = "startRecording" /\ o.outcome \in {"return", "started"}
        present == /\ Truthy(productInfo)       \* the canvas is in its card
                   /\ audioUrl # NULL
                   /\ mediaSource # NULL
        failure == { << m >> : m \in { "Erro ao carregar áudio da narração.",
                                       "Tempo esgotado ao carregar áudio." } }
    IN  /\ click /\ ~present
               => UNCHANGED << reactVars, asyncVars, done, audioBlob >>
        /\ click /\ o.outcome = "started" => present
        /\ o.op = "startRecording" /\ o.outcome = "audio fails"
               => /\ error' \in failure
                  /\ ~isRecording'
                  /\ \E i \in 1..Len(recordings) :
                         /\ recordings' = RemoveAt(recordings, i)
                         /\ recordings[i].recorder = "none"
                         /\ recordings[i].frames = 0
                         /\ recordings[i].startTime = 0

\* C11: startRecording changes no state unless the canvas, audioUrl,
\* mediaSource and productInfo are all present; when they are and the
\* narration fails to load or times out, error is the failure message,
\* isRecording is false again, and the attempt is over without a
\* MediaRecorder started or an animation frame requested.
C11_GuardedStart == [][C11_GuardStep]_vars

\* an attempt timed out on the narration after a story had been recorded
C11_Witness ==
    /\ lastOp.op = "startRecording"
    /\ lastOp.outcome = "audio fails"
    /\ error = << "Tempo esgotado ao carregar áudio." >>
    /\ ~isRecording
    /\ recordings = <<>>
    /\ "video" \in done

\* what C12 says of one step (fractions compared by cross-multiplying)
C12_ProgressStep ==
    LET o == lastOp'
        p == recordingProgress
        q == recordingProgress'
    IN  /\ q.den > 0 /\ 0 <= q.num /\ q.num <= q.den
        /\ o.op = "draw" => q.num * p.den >= p.num * q.den
        /\ o.op = "startRecording" /\ o.outcome = "started" => q.num = 0
        /\ o.op = "draw" /\ o.outcome = "stop" => q.num = q.den

\* C12: during a recording recordingProgress stays within 0 to 100 and does
\* not decrease from one animation frame to the next; it is reset to 0 when
\* startRecording begins and is 100 at the frame that stops the recorder.
C12_ProgressMonotone == [][C12_ProgressStep]_vars

\* a frame in the middle of a recording, past an earlier frame's progress
C12_Witness ==
    /\ lastOp.op = "draw"
    /\ lastOp.outcome = "next frame"
    /\ recordingProgress.num >= 5000
    /\ recordingProgress.num < recordingProgress.den

\* C13: every recording that is started eventually ends.  Whenever
\* isRecording is true it eventually becomes false again, with a video
\* produced (videoBlobUrl set) or an error reported, whatever the outcome of
\* loading the narration and the asset.  An asset that does not load breaks
\* this: nothing settles the promise startRecording awaits.
C13_RecordingEnds ==
    isRecording ~> (~isRecording /\ (videoBlobUrl # NULL \/ error # NoError))

====
